---- MODULE Spec2Model ----
(***************************************************************************)
(* A model of the retrieval-augmented tax assistant:                       *)
(*   ingest.py   - chunk_lines, the chunker of the ingestion script        *)
(*   app.py      - the serving process: corpus KB, retrieve, chat          *)
(*   ca_convo.py - ChatSession: send_message and _call_model               *)
(* The three are separate programs; each has its own specification.        *)
(***************************************************************************)
EXTENDS Integers, Sequences, FiniteSets, TLC

VARIABLES
    \* ---- ingest.py: one run of the generator chunk_lines ----
    lines,        \* the input lines (a line is [no |-> position, len |-> len(line)])
    max_chars,    \* parameter max_chars
    overlap,      \* parameter overlap
    ck_pc,        \* "idle" | "loop" (inside the for loop) | "done" (generator exhausted)
    pos,          \* number of input lines consumed by the for loop
    buffer,       \* local buffer: the lines of the chunk being built
    size,         \* local size
    chunks,       \* the chunks yielded so far, each the list of lines joined by "\n"
    \* ---- app.py: the serving process ----
    KB,           \* the corpus loaded at start: records [id, embedding]; id stands
                  \* for the record's id, text, source and chunk_index
    TOP_K,        \* int(os.environ.get("TOP_K", "4"))
    SYSTEM_PROMPT,\* _load_system_prompt(), a sequence of text parts
    req,          \* the last ChatRequest: [question, history]
    env,          \* how the provider behaves during that request
    hits,         \* chat's local hits (<<>> while unassigned)
    messages,     \* chat's local messages (<<>> while unassigned)
    calls,        \* the completion calls chat made, in call order
    resp,         \* what chat gave its caller: a ChatResponse or a raised error
    \* ---- ca_convo.py: one ChatSession ----
    history,      \* self.history
    attached_files,\* self.attached_files
    s_calls,      \* the completion calls of the last send_message, in call order
    s_sent,       \* the messages the last send_message gave to _call_model
    s_ret,        \* the return value of the last send_message
    s_op,         \* the method of the session that ran last
    \* ---- the store file, one run of ingest.py main, the start of app.py ----
    store,        \* vector_store/embeddings.pkl: absent, corrupt or a list of records
    run,          \* what the last run of main did and how it ended
    app_state,    \* "down" | "failed" (the import raised) | "serving"
    loaded,       \* the store as the serving process found it when it started
    health_resp,  \* the last answer of GET /healthz
    \* ---- what a program reads when it starts ----
    prompt_call,  \* the last call of a system-prompt loader and its outcome
    client_call   \* the last call of create_client and its outcome

ingest_vars == <<lines, max_chars, overlap, ck_pc, pos, buffer, size, chunks>>

app_vars == <<KB, TOP_K, SYSTEM_PROMPT, req, env, hits, messages, calls, resp>>

convo_vars == <<history, attached_files, s_calls, s_sent, s_ret, s_op>>

deploy_vars == <<store, run, app_state, loaded, health_resp>>

config_vars == <<prompt_call, client_call>>

vars == <<ingest_vars, app_vars, convo_vars, deploy_vars, config_vars>>

(***************************************************************************)
(* Bounds of the model                                                     *)
(***************************************************************************)
MaxLines == 4        \* longest input of chunk_lines
MaxLineLen == 3      \* longest input line
MaxChars == 4        \* largest max_chars
MaxOverlap == 2      \* largest overlap
MaxCorpus == 3       \* largest corpus
MaxTopK == 4         \* largest TOP_K (4 is the default)
MaxNegTopK == 1      \* TOP_K ranges down to -MaxNegTopK
MaxHistory == 6      \* longest history a request carries

(***************************************************************************)
(* Helpers                                                                 *)
(***************************************************************************)
Min(a, b) == IF a < b THEN a ELSE b

Max(a, b) == IF a < b THEN b ELSE a

RECURSIVE SumLen(_)
\* sum(len(b) for b in buffer)
SumLen(buf) == IF buf = <<>> THEN 0 ELSE buf[1].len + SumLen(Tail(buf))

\* len("\n".join(buf)): the characters of the lines and one newline between two
JoinLen(buf) == IF buf = <<>> THEN 0 ELSE SumLen(buf) + (Len(buf) - 1)

\* the last n elements of s, in order
LastN(s, n) == SubSeq(s, Len(s) - n + 1, Len(s))

(***************************************************************************)
(* ingest.py: chunk_lines                                                  *)
(***************************************************************************)
RECURSIVE OverlapWalk_atleast(_, _, _, _)
\* a backward walk that stops as soon as overlap characters are reached
OverlapWalk_atleast(buf, ov, n, chars) ==
    IF n = Len(buf) THEN n
    ELSE LET c == chars + buf[Len(buf) - n].len
         IN  IF c >= ov THEN n + 1 ELSE OverlapWalk_atleast(buf, ov, n + 1, c)

RECURSIVE OverlapWalk(_, _, _, _)
\* the backward walk "for bl in reversed(buffer)": n lines are taken and they
\* hold chars characters; the result is the number of lines taken at the end
OverlapWalk(buf, ov, n, chars) ==
    IF n = Len(buf) THEN n
    ELSE LET c == chars + buf[Len(buf) - n].len
         IN  IF c > ov THEN n + 1 ELSE OverlapWalk(buf, ov, n + 1, c)

\* the seed left in the order of the backward walk: buffer = overlap_buf
OverlapTail_unreversed(buf, ov) ==
    LET n == OverlapWalk(buf, ov, 0, 0)
    IN  [i \in 1..n |-> buf[Len(buf) + 1 - i]]

\* buffer = list(reversed(overlap_buf))
OverlapTail(buf, ov) == LastN(buf, OverlapWalk(buf, ov, 0, 0))

\* the test without "and buffer": an empty buffer is flushed too
MustFlush_empty_too(sz, line, mc, buf) == sz + line.len + 1 > mc

\* the test that ends a chunk before the next line is added
MustFlush(sz, line, mc, buf) == sz + line.len + 1 > mc /\ buf # <<>>

\* the lines a call may be given: positions 1..n, lengths 1..MaxLineLen
LineSeqs ==
    UNION { { [i \in 1..n |-> [no |-> i, len |-> f[i]]] : f \in [1..n -> 1..MaxLineLen] }
            : n \in 0..MaxLines }

IngestInit ==
    /\ lines = <<>>
    /\ max_chars = 1
    /\ overlap = 0
    /\ ck_pc = "idle"
    /\ pos = 0
    /\ buffer = <<>>
    /\ size = 0
    /\ chunks = <<>>

\* chunk_lines(lines, max_chars, overlap) is called: the generator is created
ChunkCall ==
    /\ ck_pc = "idle"
    /\ \E ls \in LineSeqs, mc \in 1..MaxChars, ov \in 0..MaxOverlap :
          /\ lines' = ls
          /\ max_chars' = mc
          /\ overlap' = ov
    /\ ck_pc' = "loop"
    /\ pos' = 0
    /\ buffer' = <<>>
    /\ size' = 0
    /\ chunks' = <<>>
    /\ UNCHANGED <<app_vars, convo_vars, deploy_vars, config_vars>>

\* one iteration of "for line in lines"
ChunkLine ==
    /\ ck_pc = "loop"
    /\ pos < Len(lines)
    /\ LET line == lines[pos + 1]
           flush == MustFlush(size, line, max_chars, buffer)
           seed == IF flush THEN OverlapTail(buffer, overlap) ELSE buffer
           sz == IF flush THEN SumLen(seed) ELSE size
       IN  /\ chunks' = IF flush THEN Append(chunks, buffer) ELSE chunks
           /\ buffer' = Append(seed, line)
           /\ size' = sz + line.len
    /\ pos' = pos + 1
    /\ UNCHANGED <<lines, max_chars, overlap, ck_pc>>
    /\ UNCHANGED <<app_vars, convo_vars, deploy_vars, config_vars>>

\* the loop is over: "if buffer: yield", and the generator is exhausted
ChunkEnd ==
    /\ ck_pc = "loop"
    /\ pos = Len(lines)
    /\ chunks' = IF buffer # <<>> THEN Append(chunks, buffer) ELSE chunks
    /\ ck_pc' = "done"
    /\ UNCHANGED <<lines, max_chars, overlap, pos, buffer, size>>
    /\ UNCHANGED <<app_vars, convo_vars, deploy_vars, config_vars>>

IngestNext == ChunkCall \/ ChunkLine \/ ChunkEnd


(***************************************************************************)
(* app.py: embeddings and scores                                           *)
(***************************************************************************)
\* The embedding vectors of the model. Their norms are whole numbers, so a
\* cosine is an exact fraction.
Vecs == { <<1, 0>>, <<0, 1>>, <<3, 4>> }

\* np.dot(a, b)
dot(a, b) == a[1] * b[1] + a[2] * b[2]

\* np.linalg.norm(a)
norm(a) == CHOOSE n \in 0..(dot(a, a)) : n * n = dot(a, a)

\* cosine(a, b) = dot / (norm * norm + 1e-9), as the fraction num/den with
\* den > 0. The 1e-9 decides the value only when a norm is 0 (the score is 0
\* then); otherwise it is below the distance of two different scores.
cosine(a, b) ==
    IF norm(a) * norm(b) = 0
    THEN [num |-> 0, den |-> 1]
    ELSE [num |-> dot(a, b), den |-> norm(a) * norm(b)]

\* comparison of two scores
ScoreLt(s, t) == s.num * t.den < t.num * s.den

ScoreEq(s, t) == s.num * t.den = t.num * s.den

ScoreGe(s, t) == ~ScoreLt(s, t)

(***************************************************************************)
(* app.py: retrieve                                                        *)
(***************************************************************************)
\* the loop of retrieve: scored.append((cosine(qv, rec["embedding"]), rec))
Scored(qv, kb) == [i \in 1..Len(kb) |-> [score |-> cosine(qv, kb[i].embedding), rec |-> kb[i]]]

\* InsertAt with the comparison made strict: equal keys change places
InsertAt_unstable(s, x) == Cardinality({ i \in 1..Len(s) : ScoreLt(x.score, s[i].score) })

\* how many of the elements of the descending list s go before a new element
\* x: those whose key is not below x's (an equal key stays in front: stable)
InsertAt(s, x) == Cardinality({ i \in 1..Len(s) : ScoreGe(s[i].score, x.score) })

\* SortDesc with the sort left out
SortDesc_unsorted(s) == s

RECURSIVE SortDesc(_)
\* scored.sort(key=lambda x: x[0], reverse=True): a stable sort, descending
SortDesc(s) ==
    IF s = <<>> THEN <<>>
    ELSE LET front == SortDesc(SubSeq(s, 1, Len(s) - 1))
             x == s[Len(s)]
             n == InsertAt(front, x)
         IN  SubSeq(front, 1, n) \o <<x>> \o SubSeq(front, n + 1, Len(front))

\* SliceTo one element too long
SliceTo_offbyone(s, k) == SubSeq(s, 1, Min(k + 1, Len(s)))

\* the Python slice s[:k]
SliceTo(s, k) ==
    IF k >= 0 THEN SubSeq(s, 1, Min(k, Len(s)))
    ELSE SubSeq(s, 1, Max(Len(s) + k, 0))

\* scored[:k] of the sorted list
TopScored(qv, kb, k) == SliceTo(SortDesc(Scored(qv, kb)), k)

\* retrieve(query, k) once embed(query) returned qv: [r for _, r in scored[:k]]
retrieve(qv, kb, k) == LET top == TopScored(qv, kb, k) IN [i \in 1..Len(top) |-> top[i].rec]

\* retrieve sorting the corpus itself by score (KB.sort in place of scored.sort)
KB_sorted_by_retrieve(kb, qv) ==
    LET sorted == SortDesc(Scored(qv, kb)) IN [i \in 1..Len(sorted) |-> sorted[i].rec]

\* KB after retrieve ran: the loop only reads KB, scored is a list of its own
KB_after_retrieve(kb, qv) == kb

(***************************************************************************)
(* app.py: the system prompt                                               *)
(***************************************************************************)
\* the states of the prompt document docs/system_prompt.md
PromptDocs == {"missing", "unreadable", "empty", "no_marker", "marker"}

base_fallback ==
    << <<"system", "You are an expert Indian Chartered Accountant-style AI Tax Assistant">>,
       <<"system", "Use ONLY the provided context chunks">>,
       <<"system", "Always finish with: Disclaimer">> >>

\* the lines of the document from the marker line to CORE OBJECTIVES
extracted ==
    << <<"system", "You are an expert Indian Chartered Accountant-style AI Tax Assistant">>,
       <<"system", "body of the prompt document">> >>

retrieval_rules ==
    << <<"rule", "1. Use ONLY the provided context chunks">>,
       <<"rule", "2. If critical data missing, ask follow-up">>,
       <<"rule", "3. Cite sources as [Chunk i]">>,
       <<"rule", "4. If no relevant chunk, state inability">>,
       <<"rule", "5. Output concise markdown; tables for comparisons">>,
       <<"rule", "6. End with: Disclaimer">> >>

\* open or read raising lands in "except Exception: return base_fallback"
_load_system_prompt(doc) ==
    IF doc \in {"missing", "unreadable"} THEN base_fallback
    ELSE (IF doc = "marker" THEN extracted ELSE base_fallback) \o retrieval_rules

(***************************************************************************)
(* ca_convo.py and ui.py: the system prompt; azure_openai.py: the client   *)
(***************************************************************************)
\* the string returned when the document does not exist
short_fallback ==
    << <<"system", "You are an expert Indian Chartered Accountant-style AI Tax Assistant">>,
       <<"system", "If information is missing ask clarifying questions. End with a disclaimer.">> >>

\* content[:4000] of a document: nothing for an empty one
ContentHead(doc) ==
    IF doc = "empty" THEN <<>> ELSE << <<"document", "the first 4000 characters">> >>

Returned(value) == [kind |-> "return", value |-> value, exc |-> ""]

Raised(exc) == [kind |-> "raise", value |-> <<>>, exc |-> exc]

\* ca_convo.load_system_prompt: os.path.exists guards the open, nothing
\* guards the read
load_system_prompt(doc) ==
    IF doc = "missing" THEN Returned(short_fallback)
    ELSE IF doc = "unreadable" THEN Raised("OSError")
    ELSE IF doc = "marker" THEN Returned(extracted)
    ELSE Returned(ContentHead(doc))

\* ui.load_system_prompt, the same statements
ui_load_system_prompt(doc) ==
    IF doc = "missing" THEN Returned(short_fallback)
    ELSE IF doc = "unreadable" THEN Raised("OSError")
    ELSE IF doc = "marker" THEN Returned(extracted)
    ELSE Returned(ContentHead(doc))

Loaders == {"app", "ca_convo", "ui"}

LoaderOutcome(loader, doc) ==
    IF loader = "app" THEN Returned(_load_system_prompt(doc))
    ELSE IF loader = "ca_convo" THEN load_system_prompt(doc)
    ELSE ui_load_system_prompt(doc)

\* the values of a flag variable and of a key or endpoint variable
FlagValues == {"unset", "1", "True", "0"}

EnvValues == {"unset", "empty", "value"}

ClientEnvs ==
    [FORCE_GLOBAL_EMBED : FlagValues, USE_GLOBAL_OPENAI : FlagValues,
     AZURE_OPENAI_ENDPOINT : EnvValues, AZURE_OPENAI_API_KEY : EnvValues,
     OPENAI_API_KEY : EnvValues]

Purposes == {"None", "embeddings"}

\* os.environ.get(name, "").lower() in {"1", "true", "yes"}
lower(v) == IF v = "True" THEN "true" ELSE IF v = "unset" THEN "" ELSE v

truthy_flag(v) == lower(v) \in {"1", "true", "yes"}

\* the truth value of os.environ.get(name): None and "" are false
truthy(v) == v = "value"

make_global == [kind |-> "client", base_url |-> "global_endpoint", api_key |-> "OPENAI_API_KEY"]

make_azure == [kind |-> "client", base_url |-> "AZURE_OPENAI_ENDPOINT", api_key |-> "AZURE_OPENAI_API_KEY"]

NoClient == [kind |-> "raise", base_url |-> "", api_key |-> ""]

\* create_client with the Azure resource tried before the explicit global flag
create_client_azure_first(purpose, e) ==
    LET force_global_embed == purpose = "embeddings" /\ truthy_flag(e.FORCE_GLOBAL_EMBED)
        use_global == truthy_flag(e.USE_GLOBAL_OPENAI)
        global_key == truthy(e.OPENAI_API_KEY)
    IN  IF force_global_embed /\ global_key THEN make_global
        ELSE IF truthy(e.AZURE_OPENAI_ENDPOINT) /\ truthy(e.AZURE_OPENAI_API_KEY) THEN make_azure
        ELSE IF use_global /\ global_key THEN make_global
        ELSE IF global_key THEN make_global
        ELSE NoClient

create_client(purpose, e) ==
    LET force_global_embed == purpose = "embeddings" /\ truthy_flag(e.FORCE_GLOBAL_EMBED)
        use_global == truthy_flag(e.USE_GLOBAL_OPENAI)
        global_key == truthy(e.OPENAI_API_KEY)
    IN  IF force_global_embed /\ global_key THEN make_global
        ELSE IF use_global /\ global_key THEN make_global
        ELSE IF truthy(e.AZURE_OPENAI_ENDPOINT) /\ truthy(e.AZURE_OPENAI_API_KEY) THEN make_azure
        ELSE IF global_key THEN make_global
        ELSE NoClient

NoPromptCall == [state |-> "none", loader |-> "", doc |-> "", outcome |-> Returned(<<>>)]

NoClientCall ==
    [state |-> "none", purpose |-> "",
     env |-> [FORCE_GLOBAL_EMBED |-> "unset", USE_GLOBAL_OPENAI |-> "unset",
              AZURE_OPENAI_ENDPOINT |-> "unset", AZURE_OPENAI_API_KEY |-> "unset",
              OPENAI_API_KEY |-> "unset"],
     outcome |-> NoClient]

ConfigInit ==
    /\ prompt_call = NoPromptCall
    /\ client_call = NoClientCall

\* a program loads its system prompt
LoadPrompt ==
    /\ prompt_call.state = "none"
    /\ \E loader \in Loaders, doc \in PromptDocs :
          prompt_call' = [state |-> "done", loader |-> loader, doc |-> doc,
                          outcome |-> LoaderOutcome(loader, doc)]
    /\ UNCHANGED client_call
    /\ UNCHANGED <<ingest_vars, app_vars, convo_vars, deploy_vars>>

\* a program makes its client
CreateClient ==
    /\ client_call.state = "none"
    /\ \E purpose \in Purposes, e \in ClientEnvs :
          client_call' = [state |-> "done", purpose |-> purpose, env |-> e,
                          outcome |-> create_client(purpose, e)]
    /\ UNCHANGED prompt_call
    /\ UNCHANGED <<ingest_vars, app_vars, convo_vars, deploy_vars>>

ConfigNext == LoadPrompt \/ CreateClient

(***************************************************************************)
(* app.py: chat                                                            *)
(***************************************************************************)
\* req.history[-5:] keeps this many messages
HistoryWindow == 5

\* SliceLast keeping the oldest n instead of the newest
SliceLast_oldest(s, n) == SubSeq(s, 1, Min(n, Len(s)))

\* the Python slice s[-n:] for n > 0
SliceLast(s, n) == LastN(s, Min(n, Len(s)))

\* the questions of the model
Questions == {"how is gst filed", "tax on my salary"}

\* the histories of the model: n messages, user and assistant in turn, the
\* content of message i is its number
HistoryOf(n) ==
    [i \in 1..n |-> [role |-> IF i % 2 = 1 THEN "user" ELSE "assistant",
                     content |-> << <<"turn", i>> >>]]

Histories == { HistoryOf(n) : n \in 0..MaxHistory }

\* the corpora of the model
Corpora ==
    UNION { { [i \in 1..n |-> [id |-> i, embedding |-> f[i]]] : f \in [1..n -> Vecs] }
            : n \in 0..MaxCorpus }

\* how the provider behaves during one request: embed(q) fails or returns qv,
\* chat.completions.create and responses.create succeed or raise
Envs ==
    { [embed |-> "ok", qv |-> v, primary |-> p, fallback |-> f] :
          v \in Vecs, p \in {"ok", "fail"}, f \in {"ok", "fail"} }
    \cup
    { [embed |-> "fail", qv |-> <<0, 0>>, primary |-> p, fallback |-> f] :
          p \in {"ok", "fail"}, f \in {"ok", "fail"} }

\* context_text with the labels counted from 1
context_text_onebased(h) ==
    [j \in 1..(2 * Len(h)) |->
        IF j % 2 = 1 THEN <<"[Chunk i]", (j + 1) \div 2>>
        ELSE <<"text", h[j \div 2].id>>]

\* context_blocks joined: for hit i (from 0) the label [Chunk i], then its text
context_text(h) ==
    [j \in 1..(2 * Len(h)) |->
        IF j % 2 = 1 THEN <<"[Chunk i]", (j + 1) \div 2 - 1>>
        ELSE <<"text", h[j \div 2].id>>]

\* the fixed tail of user_content
Instructions ==
    << <<"Instructions:", 0>>,
       <<"instruction", "1. Provide comprehensive analysis using structured tables">>,
       <<"instruction", "2. Always include tax optimization opportunities">>,
       <<"instruction", "3. Compare old vs new regime">>,
       <<"instruction", "4. Suggest specific investment options and amounts">>,
       <<"instruction", "5. Provide actionable next steps">>,
       <<"instruction", "6. Use the provided context for accurate figures">>,
       <<"Answer:", 0>> >>

\* user_content: the question, the context section, the instructions
user_content(question, h) ==
    << <<"Question:", question>>, <<"Context:", 0>> >> \o context_text(h) \o Instructions

\* messages: the system message, req.history[-5:], the final user message
assemble(sys, hist, content) ==
    << [role |-> "system", content |-> sys] >>
    \o SliceLast(hist, HistoryWindow)
    \o << [role |-> "user", content |-> content] >>

\* "keyword in question_lower" for the questions of the model
KeywordIn(keyword, question) ==
    <<question, keyword>> \in { <<"tax on my salary", "salary">> }

AnyKeywordIn(keywords, question) == \E k \in keywords : KeywordIn(k, question)

\* the three keyword rules: their trigger keywords and their fixed lists
SalaryKeywords == {"salary", "income", "form 16", "tax liability"}

\* a suggestion (a dict in the source) is named by its "strategy" entry
SalarySuggestions ==
    <<"Maximize 80C deductions", "Optimize health insurance",
      "Consider NPS additional contribution">>

\* (the currency sign of the first step is left out)
SalarySteps ==
    <<"Review current 80C investments and maximize to 1.5L limit",
      "Ensure health insurance for self and parents",
      "Compare old vs new tax regime based on deduction profile">>

InvestmentKeywords == {"investment", "80c", "tax saving", "deduction"}

InvestmentSuggestions ==
    <<"ELSS mutual funds", "PPF contribution", "Health insurance upgrade">>

InvestmentSteps ==
    <<"Start ELSS SIP for optimal growth and tax benefits",
      "Consider PPF for long-term stable returns",
      "Evaluate health insurance adequacy for family">>

Form16Steps ==
    <<"Verify TDS details against Form 26AS", "Check HRA exemption optimization",
      "Ensure all eligible deductions are claimed",
      "Compare tax liability under both regimes">>

\* the locals of analyze_tax_scenario when its last statement has run
AnalysisLists(question) ==
    [optimization_suggestions |->
        (IF AnyKeywordIn(SalaryKeywords, question) THEN SalarySuggestions ELSE <<>>)
        \o (IF AnyKeywordIn(InvestmentKeywords, question) THEN InvestmentSuggestions ELSE <<>>),
     next_steps |->
        (IF AnyKeywordIn(SalaryKeywords, question) THEN SalarySteps ELSE <<>>)
        \o (IF AnyKeywordIn(InvestmentKeywords, question) THEN InvestmentSteps ELSE <<>>)
        \o (IF KeywordIn("form 16", question) THEN Form16Steps ELSE <<>>)]

\* analyze_tax_scenario fills its three lists and ends without a return
\* statement: the lists are dropped and the call evaluates to None
analyze_tax_scenario(question, context) == [tag |-> "None"]

\* sources=[f"Chunk {i}" for i,_ in enumerate(hits)]
Sources(h) == [i \in 1..Len(h) |-> <<"Chunk", i - 1>>]

NoResp ==
    [kind |-> "none", answer |-> "", sources |-> <<>>, exc |-> "", context |-> "",
     optimization_suggestions |-> <<>>, next_steps |-> <<>>]

\* the handler raises exc; context is the error that was being handled
Raise(exc, context) == [NoResp EXCEPT !.kind = "raise", !.exc = exc, !.context = context]

ChatResponse(answer, sources, analysis) ==
    [NoResp EXCEPT !.kind = "response", !.answer = answer, !.sources = sources,
                   !.optimization_suggestions = analysis.optimization_suggestions,
                   !.next_steps = analysis.next_steps]

\* the try/except of chat: chat.completions.create, and on an exception
\* responses.create; "raise e2" while handling e
ChatCompletion(e) ==
    IF e.primary = "ok"
    THEN [calls |-> << [api |-> "primary", result |-> "ok"] >>,
          ok |-> TRUE, answer |-> "primary_text", exc |-> "", context |-> ""]
    ELSE IF e.fallback = "ok"
    THEN [calls |-> << [api |-> "primary", result |-> "raise"],
                       [api |-> "fallback", result |-> "ok"] >>,
          ok |-> TRUE, answer |-> "fallback_text", exc |-> "", context |-> ""]
    ELSE [calls |-> << [api |-> "primary", result |-> "raise"],
                       [api |-> "fallback", result |-> "raise"] >>,
          ok |-> FALSE, answer |-> "", exc |-> "fallback_error", context |-> "primary_error"]

\* chat with the embedding error swallowed: the completion is called anyway
chat_embed_error_swallowed(r, e, kb, k, sys) ==
    LET c == ChatCompletion(e)
    IN  [hits |-> <<>>, messages |-> <<>>, calls |-> c.calls,
         resp |-> IF c.ok THEN ChatResponse(c.answer, <<>>, AnalysisLists(r.question))
                  ELSE Raise(c.exc, c.context)]

\* the handler chat(req) under provider behaviour e: the values of its locals
\* and what its caller gets
chat(r, e, kb, k, sys) ==
    IF e.embed = "fail"
    THEN [hits |-> <<>>, messages |-> <<>>, calls |-> <<>>,
          resp |-> Raise("embedding_error", "")]
    ELSE LET h == retrieve(e.qv, kb, k)
             msgs == assemble(sys, r.history, user_content(r.question, h))
             analysis == analyze_tax_scenario(r.question, context_text(h))
         IN  IF analysis.tag = "None"
             \* unpacking None into three names raises TypeError
             THEN [hits |-> h, messages |-> msgs, calls |-> <<>>,
                   resp |-> Raise("TypeError", "")]
             ELSE LET c == ChatCompletion(e)
                  IN  [hits |-> h, messages |-> msgs, calls |-> c.calls,
                       resp |-> IF c.ok THEN ChatResponse(c.answer, Sources(h), analysis)
                                ELSE Raise(c.exc, c.context)]

\* the JSON bodies posted to /chat, as the sets of their keys: the body of the
\* API's clients and the body test_comprehensive_system.py sends
Bodies == { {"question", "history"}, {"message", "context_data"} }

\* ChatRequest: question is required, history and context_data have defaults
ChatRequestValid(body) == "question" \in body

NoReq == [question |-> "", history |-> <<>>, body |-> {}]

NoEnv == [embed |-> "fail", qv |-> <<0, 0>>, primary |-> "fail", fallback |-> "fail"]

\* the module is imported: the corpus is unpickled, TOP_K read, the prompt loaded
AppInit ==
    /\ KB \in Corpora
    /\ TOP_K \in (0 - MaxNegTopK)..MaxTopK
    /\ SYSTEM_PROMPT \in { _load_system_prompt(d) : d \in PromptDocs }
    /\ req = NoReq
    /\ env = NoEnv
    /\ hits = <<>>
    /\ messages = <<>>
    /\ calls = <<>>
    /\ resp = NoResp

\* the serving process is not running
AppOff ==
    /\ KB = <<>>
    /\ TOP_K = 0
    /\ SYSTEM_PROMPT = <<>>
    /\ req = NoReq
    /\ env = NoEnv
    /\ hits = <<>>
    /\ messages = <<>>
    /\ calls = <<>>
    /\ resp = NoResp

\* POST /chat: the handler runs for one request
Chat ==
    /\ app_state = "serving"
    /\ resp.kind = "none"
    /\ \E q \in Questions, h \in Histories, e \in Envs, b \in Bodies :
          LET r == [question |-> q, history |-> h, body |-> b]
              out == chat(r, e, KB, TOP_K, SYSTEM_PROMPT)
          IN  /\ ChatRequestValid(b)
              /\ req' = r
              /\ env' = e
              /\ hits' = out.hits
              /\ messages' = out.messages
              /\ calls' = out.calls
              /\ resp' = out.resp
              /\ KB' = IF e.embed = "ok" THEN KB_after_retrieve(KB, e.qv) ELSE KB
    /\ UNCHANGED <<TOP_K, SYSTEM_PROMPT>>
    /\ UNCHANGED <<ingest_vars, convo_vars, deploy_vars, config_vars>>

\* POST /chat with a body that ChatRequest does not validate: the framework
\* answers 422 and the handler does not run
ChatRejected ==
    /\ app_state = "serving"
    /\ resp.kind = "none"
    /\ \E b \in Bodies :
          /\ ~ChatRequestValid(b)
          /\ req' = [NoReq EXCEPT !.body = b]
    /\ resp' = [NoResp EXCEPT !.kind = "http_422"]
    /\ UNCHANGED <<KB, TOP_K, SYSTEM_PROMPT, env, hits, messages, calls>>
    /\ UNCHANGED <<ingest_vars, convo_vars, deploy_vars, config_vars>>

\* the outcome is delivered to the client and the handler's frame is gone
ChatDone ==
    /\ resp.kind # "none"
    /\ req' = NoReq
    /\ env' = NoEnv
    /\ hits' = <<>>
    /\ messages' = <<>>
    /\ calls' = <<>>
    /\ resp' = NoResp
    /\ UNCHANGED <<KB, TOP_K, SYSTEM_PROMPT>>
    /\ UNCHANGED <<ingest_vars, convo_vars, deploy_vars, config_vars>>

AppNext == Chat \/ ChatRejected \/ ChatDone

(***************************************************************************)
(* ca_convo.py: ChatSession                                                *)
(***************************************************************************)
\* self.max_history
max_history == 20

\* _call_model calling the fallback although the primary call returned
_call_model_always_fallback(e) ==
    [calls |-> << [api |-> "primary", result |-> IF e.primary = "ok" THEN "ok" ELSE "raise"],
                  [api |-> "fallback", result |-> IF e.fallback = "ok" THEN "ok" ELSE "raise"] >>,
     ok |-> e.primary = "ok" \/ e.fallback = "ok",
     answer |-> "model_text",
     exc |-> "primary_error", context |-> "fallback_error"]

\* _call_model: chat.completions.create, and on an exception responses.create;
\* "raise e" (the first error) while handling the second; the answer is the
\* text the model gave, whichever convention delivered it
_call_model(e) ==
    IF e.primary = "ok"
    THEN [calls |-> << [api |-> "primary", result |-> "ok"] >>,
          ok |-> TRUE, answer |-> "model_text", exc |-> "", context |-> ""]
    ELSE IF e.fallback = "ok"
    THEN [calls |-> << [api |-> "primary", result |-> "raise"],
                       [api |-> "fallback", result |-> "ok"] >>,
          ok |-> TRUE, answer |-> "model_text", exc |-> "", context |-> ""]
    ELSE [calls |-> << [api |-> "primary", result |-> "raise"],
                       [api |-> "fallback", result |-> "raise"] >>,
          ok |-> FALSE, answer |-> "", exc |-> "primary_error", context |-> "fallback_error"]

\* the inputs a user types
UserInputs == {"u1"}

\* how the provider behaves during one send_message
ModelEnvs == { [primary |-> p, fallback |-> f] : p \in {"ok", "fail"}, f \in {"ok", "fail"} }

\* a trim that keeps the oldest max_history messages
Trim_oldest(h) == IF Len(h) > max_history THEN SubSeq(h, 1, max_history) ELSE h

\* a trim that keeps one message less than max_history
Trim_odd(h) == IF Len(h) > max_history THEN LastN(h, max_history - 1) ELSE h

\* the history after a successful call: both messages appended, then trimmed
Trim(h) == IF Len(h) > max_history THEN LastN(h, max_history) ELSE h

\* the paths a user attaches: a text file, a path that does not exist and a
\* file of an unsupported type
Paths == {"form16.txt", "missing.txt", "notes.xyz"}

\* os.path.exists(file_path)
Exists(path) == path # "missing.txt"

\* read_file_payload: the payload of a supported file, ValueError otherwise
read_file_payload(path) ==
    IF path = "form16.txt"
    THEN [ok |-> TRUE, data |-> [type |-> "text", name |-> "form16.txt", path |-> ""]]
    ELSE [ok |-> FALSE, data |-> [type |-> "", name |-> "", path |-> ""]]

\* _build_user_message: the input, then a header and one part per attached file
_build_user_message(user_input, files) ==
    IF files = <<>> THEN << user_input >>
    ELSE << user_input, "--- ATTACHED DOCUMENTS ---" >>
         \o [i \in 1..Len(files) |-> <<files[i].name, files[i].type>>]

\* the system prompt the session was made with
SessionPrompt == [role |-> "system", content |-> "system_prompt"]

NoSend == <<"none", "">>

\* send_message that appends the user message to history before the call
send_outcome_keeps_user(h, files, user_input, e) ==
    LET user == [role |-> "user", content |-> _build_user_message(user_input, files)]
        c == _call_model(e)
    IN  [sent |-> <<SessionPrompt>> \o h \o <<user>>,
         calls |-> c.calls,
         history |-> IF c.ok
                     THEN Trim(h \o << user, [role |-> "assistant", content |-> c.answer] >>)
                     ELSE Trim(Append(h, user)),
         ret |-> IF c.ok THEN <<"response", c.answer>>
                 ELSE <<"Error calling model:", c.exc>>]

\* the body of send_message: the messages, the call, the history update and
\* the return value; an exception of the call is caught and reported
send_outcome(h, files, user_input, e) ==
    LET user == [role |-> "user", content |-> _build_user_message(user_input, files)]
        c == _call_model(e)
    IN  [sent |-> <<SessionPrompt>> \o h \o <<user>>,
         calls |-> c.calls,
         history |-> IF c.ok
                     THEN Trim(h \o << user, [role |-> "assistant", content |-> c.answer] >>)
                     ELSE h,
         ret |-> IF c.ok THEN <<"response", c.answer>>
                 ELSE <<"Error calling model:", c.exc>>]

ConvoInit ==
    /\ history = <<>>
    /\ attached_files = <<>>
    /\ s_calls = <<>>
    /\ s_sent = <<>>
    /\ s_ret = NoSend
    /\ s_op = "none"

\* ChatSession.send_message(user_input); the session runs one method at a time
send_message ==
    /\ s_ret = NoSend
    /\ \E u \in UserInputs, e \in ModelEnvs :
          LET out == send_outcome(history, attached_files, u, e)
          IN  /\ s_sent' = out.sent
              /\ s_calls' = out.calls
              /\ history' = out.history
              /\ s_ret' = out.ret
    /\ s_op' = "send_message"
    /\ UNCHANGED attached_files
    /\ UNCHANGED <<ingest_vars, app_vars, deploy_vars, config_vars>>

\* the caller has the return value and the frame of send_message is gone
send_message_return ==
    /\ s_ret # NoSend
    /\ s_sent' = <<>>
    /\ s_calls' = <<>>
    /\ s_ret' = NoSend
    /\ UNCHANGED <<history, attached_files, s_op>>
    /\ UNCHANGED <<ingest_vars, app_vars, deploy_vars, config_vars>>

\* ChatSession.reset_history()
reset_history ==
    /\ s_ret = NoSend
    /\ history' = <<>>
    /\ s_op' = "reset_history"
    /\ UNCHANGED <<attached_files, s_calls, s_sent, s_ret>>
    /\ UNCHANGED <<ingest_vars, app_vars, deploy_vars, config_vars>>

\* ChatSession.add_file(file_path): False for a missing or unsupported file,
\* True and no second entry for a path already attached
add_file ==
    /\ s_ret = NoSend
    /\ \E path \in Paths :
          LET file_data == read_file_payload(path)
              attached == \E i \in 1..Len(attached_files) : attached_files[i].path = path
          IN  attached_files' =
                 IF Exists(path) /\ file_data.ok /\ ~attached
                 THEN Append(attached_files, [file_data.data EXCEPT !.path = path])
                 ELSE attached_files
    /\ s_op' = "add_file"
    /\ UNCHANGED <<history, s_calls, s_sent, s_ret>>
    /\ UNCHANGED <<ingest_vars, app_vars, deploy_vars, config_vars>>

\* ChatSession.clear_files()
clear_files ==
    /\ s_ret = NoSend
    /\ attached_files' = <<>>
    /\ s_op' = "clear_files"
    /\ UNCHANGED <<history, s_calls, s_sent, s_ret>>
    /\ UNCHANGED <<ingest_vars, app_vars, deploy_vars, config_vars>>

ConvoNext ==
    send_message \/ send_message_return \/ reset_history \/ add_file \/ clear_files

(***************************************************************************)
(* ingest.py main, the store file, and the start of the serving process    *)
(***************************************************************************)
\* the largest number of chunks one file gives
MaxFileChunks == 2

\* TOP_K when the environment does not set it
DefaultTopK == 4

\* the supported files a data directory may hold, in sorted(rglob) order
FileNames == <<"a.txt", "a.txt:::0.txt">>

\* the store file: records is the list main gave to pickle.dump, bytes is
\* what the file holds
NoStore == [kind |-> "absent", records |-> <<>>, bytes |-> <<>>]

\* a store file that pickle.load cannot read
CorruptStore == [kind |-> "corrupt", records |-> <<>>, bytes |-> <<"garbage">>]

\* the keys of a record in the order main inserts them
DictKeys == <<"id", "text", "embedding", "source", "chunk_index">>

\* how a value is written: a numpy array as its dtype, shape and buffer, any
\* other value as the object it is
DumpValue(k, v) ==
    IF k = "embedding"
    THEN [type |-> "ndarray", dtype |-> "float32", shape |-> Len(v), buf |-> v, value |-> 0]
    ELSE [type |-> "obj", dtype |-> "", shape |-> 0, buf |-> <<>>, value |-> v]

\* a dict is written as its items in insertion order
DumpDict(r) ==
    LET ks == SelectSeq(DictKeys, LAMBDA k : k \in DOMAIN r)
    IN  [j \in 1..Len(ks) |-> <<ks[j], DumpValue(ks[j], r[ks[j]])>>]

\* pickle.dump(records, f): the list is written item by item
pickle_dump(records) == [i \in 1..Len(records) |-> DumpDict(records[i])]

\* an array read back with its buffer in reverse
LoadValue_reversed(x) ==
    IF x.type = "ndarray" THEN [j \in 1..x.shape |-> x.buf[x.shape + 1 - j]] ELSE x.value

\* how a written value is read back
LoadValue(x) ==
    IF x.type = "ndarray" THEN [j \in 1..x.shape |-> x.buf[j]] ELSE x.value

LoadDict(item) ==
    [k \in { item[j][1] : j \in 1..Len(item) } |->
        LoadValue(item[CHOOSE j \in 1..Len(item) : item[j][1] = k][2])]

\* pickle.load(f) of a file pickle.dump wrote
pickle_load(bytes) == [i \in 1..Len(bytes) |-> LoadDict(bytes[i])]

Present(f) == f.n >= 0

\* the files of a directory: c gives each name its number of chunks, -1 for a
\* name the directory does not hold; a file that load_and_chunk fails on or
\* that is empty has 0 chunks
Listing(c) ==
    SelectSeq([i \in 1..Len(FileNames) |-> [source |-> FileNames[i], n |-> c[i]]], Present)

DataDirs ==
    { [exists |-> FALSE, files |-> <<>>] }
    \cup { [exists |-> TRUE, files |-> Listing(c)] :
              c \in [1..Len(FileNames) -> (0 - 1)..MaxFileChunks] }

discover_files(data_dir) == data_dir.files

\* the entries main appends to all_chunks for one file
FileChunks(f) ==
    [i \in 1..f.n |-> [source |-> f.source, chunk_index |-> i - 1,
                       text |-> <<f.source, i - 1>>]]

RECURSIVE all_chunks(_)
all_chunks(files) ==
    IF files = <<>> THEN <<>>
    ELSE FileChunks(Head(files)) \o all_chunks(Tail(files))

\* the vector the embeddings service gives for a text
EmbeddingOf(text) ==
    IF text[2] % 3 = 0 THEN <<1, 0>> ELSE IF text[2] % 3 = 1 THEN <<0, 1>> ELSE <<3, 4>>

\* embed_texts that drops the failing text and goes on
embed_texts_skips_failure(texts, failAt) ==
    [ok |-> TRUE, calls |-> Len(texts),
     embeddings |-> [i \in 1..(IF failAt = 0 THEN Len(texts) ELSE failAt - 1) |->
                        EmbeddingOf(texts[i])]]

\* embed_texts: one call per text in order; call number failAt raises
\* (failAt = 0: no call fails) and the error leaves the loop
embed_texts(texts, failAt) ==
    IF failAt = 0
    THEN [ok |-> TRUE, calls |-> Len(texts),
          embeddings |-> [i \in 1..Len(texts) |-> EmbeddingOf(texts[i])]]
    ELSE [ok |-> FALSE, calls |-> failAt, embeddings |-> <<>>]

\* an id seed built from the source alone
uid_seed_source_only(source, chunk_index) == source

\* f"{rec['source']}:::{rec['chunk_index']}"
uid_seed(source, chunk_index) == source \o ":::" \o ToString(chunk_index)

\* hashlib.sha1(...).hexdigest(), taken to be free of collisions
sha1(seed) == <<"sha1", seed>>

\* the records built from zip(all_chunks, embeddings)
make_records(chs, embs) ==
    [i \in 1..Min(Len(chs), Len(embs)) |->
        [id |-> sha1(uid_seed(chs[i].source, chs[i].chunk_index)),
         text |-> chs[i].text,
         embedding |-> embs[i],
         source |-> chs[i].source,
         chunk_index |-> chs[i].chunk_index]]

NoRun ==
    [state |-> "idle", force |-> FALSE, old_store |-> NoStore, exit |-> "none",
     printed |-> "none", discovered |-> FALSE, files |-> <<>>, chunk_calls |-> 0,
     embed_calls |-> 0]

\* no refusal: an existing store is overwritten without --force
Refused_never(st, force) == FALSE

\* out_path.exists() and not args.force
Refused(st, force) == st.kind # "absent" /\ ~force

\* a refusal that ends the run with SystemExit
RefusalOutcome_exits(base, st) ==
    [run |-> [base EXCEPT !.exit = "SystemExit", !.printed = "exists_use_force"],
     store |-> st]

\* print(f"Output {out_path} exists. Use --force to overwrite."); return
RefusalOutcome(base, st) ==
    [run |-> [base EXCEPT !.exit = "return", !.printed = "exists_use_force"],
     store |-> st]

\* main: how the run ends and what the store is afterwards
main(st, force, data_dir, failAt) ==
    LET base  == [NoRun EXCEPT !.state = "done", !.force = force, !.old_store = st]
        files == discover_files(data_dir)
        found == [base EXCEPT !.discovered = TRUE, !.files = files]
        chs   == all_chunks(files)
        emb   == embed_texts([i \in 1..Len(chs) |-> chs[i].text], failAt)
        tried == [found EXCEPT !.chunk_calls = Len(files), !.embed_calls = emb.calls]
    IN  IF Refused(st, force) THEN RefusalOutcome(base, st)
        ELSE IF ~data_dir.exists
        THEN [run |-> [base EXCEPT !.exit = "SystemExit", !.printed = "data_dir_not_found"],
              store |-> st]
        ELSE IF files = <<>>
        THEN [run |-> [found EXCEPT !.exit = "SystemExit", !.printed = "no_supported_files"],
              store |-> st]
        ELSE IF ~emb.ok
        THEN [run |-> [tried EXCEPT !.exit = "raise", !.printed = "total_chunks"],
              store |-> st]
        ELSE [run |-> [tried EXCEPT !.exit = "return", !.printed = "stored"],
              store |-> [kind |-> "records",
                         records |-> make_records(chs, emb.embeddings),
                         bytes |-> pickle_dump(make_records(chs, emb.embeddings))]]

\* a start that falls back to an empty corpus when the store cannot be read
load_empty_fallback(st) ==
    [ok |-> TRUE, KB |-> IF st.kind = "records" THEN pickle_load(st.bytes) ELSE <<>>]

\* open("vector_store/embeddings.pkl", "rb") and pickle.load: both raise on a
\* missing or unreadable file
load(st) ==
    IF st.kind = "records" THEN [ok |-> TRUE, KB |-> pickle_load(st.bytes)]
    ELSE [ok |-> FALSE, KB |-> <<>>]

\* create_client(): the provider is configured, or no key is set and it raises
Configs == {"ok", "none"}

NoHealth == [status |-> "none", chunks |-> 0]

\* no store yet or an unreadable one, no run, no serving process
DeployInit ==
    /\ store \in {NoStore, CorruptStore}
    /\ run = NoRun
    /\ app_state = "down"
    /\ loaded = NoStore
    /\ health_resp = NoHealth

\* nothing of the deployment is looked at
DeployOff ==
    /\ store = NoStore
    /\ run = NoRun
    /\ app_state = "down"
    /\ loaded = NoStore
    /\ health_resp = NoHealth

\* the serving process runs on the corpus KB
DeployServing ==
    /\ store = [kind |-> "records", records |-> KB, bytes |-> pickle_dump(KB)]
    /\ run = NoRun
    /\ app_state = "serving"
    /\ loaded = store
    /\ health_resp = NoHealth

\* python ingest.py [--force] over a data directory
IngestMain ==
    /\ run.state = "idle"
    /\ \E force \in BOOLEAN, data_dir \in DataDirs :
          \E failAt \in 0..Len(all_chunks(discover_files(data_dir))) :
             LET out == main(store, force, data_dir, failAt)
             IN  /\ run' = out.run
                 /\ store' = out.store
    /\ UNCHANGED <<app_state, loaded, health_resp>>
    /\ UNCHANGED <<ingest_vars, app_vars, convo_vars, config_vars>>

\* the ingestion process is gone
IngestExit ==
    /\ run.state = "done"
    /\ run' = NoRun
    /\ UNCHANGED <<store, app_state, loaded, health_resp>>
    /\ UNCHANGED <<ingest_vars, app_vars, convo_vars, config_vars>>

\* app.py is imported: TOP_K is read, the store is loaded, the client is
\* made and the system prompt is loaded; an exception ends the process
AppStart ==
    /\ app_state = "down"
    /\ loaded' = store
    /\ \E cfg \in Configs, doc \in PromptDocs :
          IF load(store).ok /\ cfg = "ok"
          THEN /\ app_state' = "serving"
               /\ KB' = load(store).KB
               /\ TOP_K' = DefaultTopK
               /\ SYSTEM_PROMPT' = _load_system_prompt(doc)
          ELSE /\ app_state' = "failed"
               /\ UNCHANGED <<KB, TOP_K, SYSTEM_PROMPT>>
    /\ UNCHANGED <<req, env, hits, messages, calls, resp>>
    /\ UNCHANGED <<store, run, health_resp>>
    /\ UNCHANGED <<ingest_vars, convo_vars, config_vars>>

\* GET /healthz
health ==
    /\ app_state = "serving"
    /\ health_resp = NoHealth
    /\ health_resp' = [status |-> "ok", chunks |-> Len(KB)]
    /\ UNCHANGED <<store, run, app_state, loaded>>
    /\ UNCHANGED <<ingest_vars, app_vars, convo_vars, config_vars>>

\* the probe has its answer
healthDone ==
    /\ health_resp # NoHealth
    /\ health_resp' = NoHealth
    /\ UNCHANGED <<store, run, app_state, loaded>>
    /\ UNCHANGED <<ingest_vars, app_vars, convo_vars, config_vars>>

DeployNext == IngestMain \/ IngestExit \/ AppStart \/ health

\* the requests a serving process answers
ServeNext == AppNext \/ health \/ healthDone

(***************************************************************************)
(* The program, and its parts taken alone                                  *)
(***************************************************************************)
Init == IngestInit /\ AppOff /\ ConvoInit /\ DeployInit /\ ConfigInit

Next == IngestNext \/ ServeNext \/ ConvoNext \/ DeployNext \/ ConfigNext

Spec == Init /\ [][Next]_vars

\* the ingestion script alone
InitIngest == IngestInit /\ AppOff /\ ConvoInit /\ DeployOff /\ ConfigInit

SpecIngest == InitIngest /\ [][IngestNext]_vars

\* the ingestion script with its loop driven to the end: load_and_chunk
\* consumes the generator with list(...), and no step of the loop blocks
SpecIngestFair == SpecIngest /\ WF_vars(ChunkLine) /\ WF_vars(ChunkEnd)

\* the serving process alone
InitApp == IngestInit /\ AppInit /\ ConvoInit /\ DeployServing /\ ConfigInit

SpecApp == InitApp /\ [][AppNext]_vars

\* one chat session alone
InitConvo == IngestInit /\ AppOff /\ ConvoInit /\ DeployOff /\ ConfigInit

SpecConvo == InitConvo /\ [][ConvoNext]_vars

\* ingestion runs and the start of the serving process over one store file
InitDeploy == IngestInit /\ AppOff /\ ConvoInit /\ DeployInit /\ ConfigInit

SpecDeploy == InitDeploy /\ [][DeployNext]_vars

\* a process serving chat and health requests with the default TOP_K
InitServe == InitApp /\ TOP_K = DefaultTopK

SpecServe == InitServe /\ [][ServeNext]_vars

\* what the programs read when they start: the prompt and the client
InitConfig == IngestInit /\ AppOff /\ ConvoInit /\ DeployOff /\ ConfigInit

SpecConfig == InitConfig /\ [][ConfigNext]_vars

(***************************************************************************)
(* C1: every chunk emitted by chunk_lines is at most max_chars long (its   *)
(* lines joined by newlines), unless it is one single line that is itself  *)
(* longer than max_chars.                                                  *)
(***************************************************************************)
C1_ChunkSizeBound ==
    \A i \in 1..Len(chunks) :
        \/ JoinLen(chunks[i]) <= max_chars
        \/ (Len(chunks[i]) = 1 /\ chunks[i][1].len > max_chars)

(***************************************************************************)
(* Observations used by the claims                                         *)
(***************************************************************************)
\* a chat request was handled and its embedding call succeeded
Embedded == resp.kind # "none" /\ env.embed = "ok"

\* the score of a corpus record against the query of the request
ScoreOf(rec) == cosine(env.qv, rec.embedding)

\* the corpus records the request did not retrieve
LeftOut == { i \in 1..Len(KB) : \A j \in 1..Len(hits) : hits[j] # KB[i] }

\* the content of the final user message
FinalUser == messages[Len(messages)].content

(***************************************************************************)
(* C2: whenever embedding the question and the completion call succeed,    *)
(* chat returns a response whose answer is the completion's text and whose *)
(* sources are the labels Chunk 0 .. Chunk n-1, one per retrieved chunk.   *)
(***************************************************************************)
C2_ChatReturnsAnswer ==
    (Embedded /\ env.primary = "ok") =>
        /\ resp.kind = "response"
        /\ resp.answer = "primary_text"
        /\ resp.sources = [i \in 1..Len(hits) |-> <<"Chunk", i - 1>>]

(***************************************************************************)
(* C3: for k >= 0 retrieve returns exactly min(k, corpus size) chunks of   *)
(* the corpus, each once, with scores in non-increasing order; a k larger  *)
(* than the corpus returns the whole corpus.                               *)
(***************************************************************************)
C3_RetrieveLengthAndOrder ==
    (Embedded /\ TOP_K >= 0) =>
        /\ Len(hits) = (IF TOP_K < Len(KB) THEN TOP_K ELSE Len(KB))
        /\ \A i \in 1..Len(hits) : \E c \in 1..Len(KB) : hits[i] = KB[c]
        /\ \A i, j \in 1..Len(hits) : i < j =>
              /\ hits[i] # hits[j]
              /\ ~ScoreLt(ScoreOf(hits[i]), ScoreOf(hits[j]))
        /\ (TOP_K > Len(KB) => LeftOut = {})

\* a request with k above the corpus size and with two different scores
C3_Witness ==
    /\ Embedded
    /\ TOP_K > Len(KB)
    /\ Len(hits) >= 2
    /\ ScoreLt(ScoreOf(hits[Len(hits)]), ScoreOf(hits[1]))

(***************************************************************************)
(* C4: for every k <= 0 retrieve returns an empty result.                  *)
(***************************************************************************)
C4_NonPositiveKIsEmpty == (Embedded /\ TOP_K <= 0) => hits = <<>>

(***************************************************************************)
(* C5: the chunks retrieve returns are the true top-k: they are corpus     *)
(* chunks and no chunk left out has a strictly higher score than a chunk   *)
(* that is returned.                                                       *)
(***************************************************************************)
C5_RetrieveTopK ==
    Embedded =>
        /\ \A i \in 1..Len(hits) : \E c \in 1..Len(KB) : hits[i] = KB[c]
        /\ \A l \in LeftOut : \A i \in 1..Len(hits) :
              ~ScoreLt(ScoreOf(hits[i]), ScoreOf(KB[l]))

\* a request that left out a chunk scoring strictly below every returned one
C5_Witness ==
    /\ Embedded
    /\ hits # <<>>
    /\ \E l \in LeftOut : \A i \in 1..Len(hits) : ScoreLt(ScoreOf(KB[l]), ScoreOf(hits[i]))

(***************************************************************************)
(* C6: chunks with the same score are returned in corpus order, and at the *)
(* cut-off a chunk left out that ties with a returned chunk comes later in *)
(* the corpus than that chunk.                                             *)
(***************************************************************************)
C6_TiesKeepCorpusOrder ==
    Embedded =>
        /\ \A i, j \in 1..Len(hits) :
              (i < j /\ ScoreEq(ScoreOf(hits[i]), ScoreOf(hits[j]))) => hits[i].id < hits[j].id
        /\ \A l \in LeftOut : \A i \in 1..Len(hits) :
              ScoreEq(ScoreOf(KB[l]), ScoreOf(hits[i])) => hits[i].id < KB[l].id

\* a request whose result holds a tie and that cut a tie at position k
C6_Witness ==
    /\ Embedded
    /\ Len(hits) >= 2
    /\ ScoreEq(ScoreOf(hits[1]), ScoreOf(hits[2]))
    /\ \E l \in LeftOut : ScoreEq(ScoreOf(KB[l]), ScoreOf(hits[Len(hits)]))

(***************************************************************************)
(* C7: the messages chat assembles are the system message, then the last   *)
(* min(5, len(history)) history messages in their order, then one final    *)
(* user message: 1 + min(5, len(history)) + 1 messages.                    *)
(***************************************************************************)
C7_MessageSequence ==
    Embedded =>
        LET h == req.history
            m == IF Len(h) < 5 THEN Len(h) ELSE 5
        IN  /\ Len(messages) = 1 + m + 1
            /\ messages[1] = [role |-> "system", content |-> SYSTEM_PROMPT]
            /\ \A i \in 1..m : messages[1 + i] = h[Len(h) - m + i]
            /\ messages[m + 2].role = "user"
            /\ messages[m + 2].content[1] = <<"Question:", req.question>>

\* a request whose history is longer than 5: seven messages are assembled
C7_Witness == Embedded /\ Len(req.history) > 5 /\ Len(messages) = 7

C9_FallbackAnswerReturned ==
    (Embedded /\ env.primary = "fail" /\ env.fallback = "ok") =>
        /\ resp.kind = "response"
        /\ resp.answer = "fallback_text"

(***************************************************************************)
(* C10: in every request the fallback convention is called only after the  *)
(* primary convention failed in that request, and at most once: the calls  *)
(* of a request are none, the primary alone, or the failed primary and     *)
(* then the fallback.                                                      *)
(***************************************************************************)
FallbackOnlyAfterPrimaryFailed(cs) ==
    /\ Len(cs) <= 2
    /\ Len(cs) >= 1 => cs[1].api = "primary"
    /\ Len(cs) = 2 => (cs[1].result = "raise" /\ cs[2].api = "fallback")

C10_FallbackOnlyAfterFailure ==
    /\ FallbackOnlyAfterPrimaryFailed(calls)
    /\ FallbackOnlyAfterPrimaryFailed(s_calls)

\* a request that called the fallback after its primary call raised
C10_Witness ==
    /\ Len(s_calls) = 2
    /\ s_calls[1] = [api |-> "primary", result |-> "raise"]
    /\ s_calls[2].api = "fallback"

(***************************************************************************)
(* C11: if both the primary and the fallback completion call fail, the     *)
(* chat request fails and the error given to the caller is the primary     *)
(* call's error or carries it as its cause.                                *)
(***************************************************************************)
C11_PrimaryErrorSurfaced ==
    (Embedded /\ env.primary = "fail" /\ env.fallback = "fail") =>
        /\ resp.kind = "raise"
        /\ (resp.exc = "primary_error" \/ resp.context = "primary_error")

(***************************************************************************)
(* C12: the optimization_suggestions and next_steps chat returns are the   *)
(* lists of the keyword rules that match the lowercased question, joined   *)
(* in rule order; they depend on the question alone.                       *)
(***************************************************************************)
C12_SuggestionsFromQuestion ==
    (Embedded /\ (env.primary = "ok" \/ env.fallback = "ok")) =>
        /\ resp.kind = "response"
        /\ resp.optimization_suggestions = AnalysisLists(req.question).optimization_suggestions
        /\ resp.next_steps = AnalysisLists(req.question).next_steps

(***************************************************************************)
(* C13: /chat accepts the body the test suite sends (message and           *)
(* context_data, no question) and answers it with HTTP 200.                *)
(***************************************************************************)
C13_TestBodyAccepted ==
    (resp.kind # "none" /\ req.body = {"message", "context_data"}) =>
        resp.kind = "response"

(***************************************************************************)
(* C14: if embedding the question fails, the request fails with that       *)
(* error and no completion call is made; a completion call happens only    *)
(* in a request whose embedding succeeded.                                 *)
(***************************************************************************)
C14_EmbedFailureIsFatal ==
    /\ (resp.kind \in {"raise", "response"} /\ env.embed = "fail") =>
          /\ resp.kind = "raise"
          /\ resp.exc = "embedding_error"
          /\ calls = <<>>
    /\ calls # <<>> => (resp.kind \in {"raise", "response"} /\ env.embed = "ok")

\* a request whose embedding failed while the completion would have worked
C14_Witness ==
    /\ resp.kind = "raise"
    /\ env.embed = "fail"
    /\ env.primary = "ok"

(***************************************************************************)
(* Observations of an ingestion run                                        *)
(***************************************************************************)
RunDone == run.state = "done"

\* the run found the output store in place and was started without --force
RunUnforcedOverStore == RunDone /\ run.old_store.kind # "absent" /\ ~run.force

RECURSIVE TotalChunks(_)
TotalChunks(files) ==
    IF files = <<>> THEN 0 ELSE Head(files).n + TotalChunks(Tail(files))

\* the number of chunks of the files before file k
Offset(files, k) == TotalChunks(SubSeq(files, 1, k - 1))

DistinctIds(records) ==
    \A i, j \in 1..Len(records) : i # j => records[i].id # records[j].id

C16_RefusedRunTouchesNothing ==
    /\ RunUnforcedOverStore =>
          /\ store = run.old_store
          /\ ~run.discovered
          /\ run.chunk_calls = 0
          /\ run.embed_calls = 0
    /\ (RunDone /\ store # run.old_store) =>
          (run.force \/ run.old_store.kind = "absent")

\* a refused run over a store that holds records
C16_Witness ==
    /\ RunUnforcedOverStore
    /\ Len(run.old_store.records) > 0
    /\ store = run.old_store

(***************************************************************************)
(* C17: the service serves only after it loaded the store: with a missing  *)
(* or unreadable store the start fails and no request is answered, and     *)
(* the corpus served is the loaded one, never an empty substitute.         *)
(***************************************************************************)
C17_ServesOnlyLoadedCorpus ==
    /\ app_state = "serving" => (loaded.kind = "records" /\ KB = loaded.records)
    /\ (app_state # "down" /\ loaded.kind # "records") => app_state = "failed"
    /\ (health_resp # NoHealth \/ resp # NoResp) => app_state = "serving"
    /\ health_resp # NoHealth => health_resp.chunks = Len(loaded.records)

\* a start over an unreadable store has failed
C17_Witness ==
    /\ app_state = "failed"
    /\ loaded.kind = "corrupt"

(***************************************************************************)
(* C18: after a run over files of n1, n2, ... chunks the store holds       *)
(* n1 + n2 + ... records in file-then-chunk order, each source's           *)
(* chunk_index values are 0 .. n-1, and an id depends on (source,          *)
(* chunk_index) only: equal in the old and the new store, never shared by  *)
(* two records of one store.                                               *)
(***************************************************************************)
C18_RecordsAndIds ==
    /\ (RunDone /\ run.printed = "stored") =>
          /\ store.kind = "records"
          /\ Len(store.records) = TotalChunks(run.files)
          /\ \A k \in 1..Len(run.files) : \A i \in 0..(run.files[k].n - 1) :
                LET rec == store.records[Offset(run.files, k) + i + 1]
                IN  rec.source = run.files[k].source /\ rec.chunk_index = i
          /\ \A i \in 1..Len(store.records) : \A j \in 1..Len(run.old_store.records) :
                LET new == store.records[i]
                    old == run.old_store.records[j]
                IN  (new.id = old.id) <=>
                       (new.source = old.source /\ new.chunk_index = old.chunk_index)
    /\ DistinctIds(store.records)

\* a store was re-ingested from two files, one of them of two chunks
C18_Witness ==
    /\ RunDone
    /\ run.printed = "stored"
    /\ Len(run.files) = 2
    /\ Len(store.records) >= 3
    /\ Len(run.old_store.records) >= 3

(***************************************************************************)
(* C19: if an embedding call fails, also in a run with --force over an     *)
(* existing store, the store is not written: it is what it was before the  *)
(* run; a store is written only after every chunk was embedded.            *)
(***************************************************************************)
C19_AllOrNothing ==
    /\ (RunDone /\ run.exit = "raise") => store = run.old_store
    /\ (RunDone /\ run.printed = "stored") =>
          /\ run.embed_calls = TotalChunks(run.files)
          /\ Len(store.records) = TotalChunks(run.files)
    /\ (RunDone /\ store # run.old_store) => run.printed = "stored"

\* a forced run over a store failed at its second embedding call
C19_Witness ==
    /\ RunDone
    /\ run.exit = "raise"
    /\ run.force
    /\ run.old_store.kind = "records"
    /\ run.embed_calls = 2

(***************************************************************************)
(* Observations of adjacent chunks                                         *)
(***************************************************************************)
\* the number of lines of chunk i + 1 that chunk i already held
SeedLen(i) ==
    Cardinality({ k \in 1..Len(chunks[i + 1]) :
                     chunks[i + 1][k].no <= chunks[i][Len(chunks[i])].no })

\* the lines chunk i + 1 starts with
SeedOf(i) == SubSeq(chunks[i + 1], 1, SeedLen(i))

(***************************************************************************)
(* C20: for adjacent chunks Ci, Ci+1 the lines that seed Ci+1 are a        *)
(* trailing slice of Ci, in the same order a prefix of Ci+1, and they      *)
(* hold more than overlap characters, or they are all of Ci when Ci holds  *)
(* no more than overlap characters.                                        *)
(***************************************************************************)
C20_OverlapSeed ==
    \A i \in 1..(Len(chunks) - 1) :
        /\ SeedLen(i) <= Len(chunks[i])
        /\ SeedLen(i) < Len(chunks[i + 1])
        /\ SeedOf(i) = LastN(chunks[i], SeedLen(i))
        /\ \A k \in (SeedLen(i) + 1)..Len(chunks[i + 1]) :
              chunks[i + 1][k].no > chunks[i][Len(chunks[i])].no
        /\ \/ SumLen(SeedOf(i)) > overlap
           \/ (SeedLen(i) = Len(chunks[i]) /\ SumLen(chunks[i]) <= overlap)

\* a chunk of three lines whose last two seed the next chunk
C20_Witness ==
    /\ ck_pc = "done"
    /\ Len(chunks) >= 2
    /\ Len(chunks[1]) = 3
    /\ SeedLen(1) = 2
    /\ overlap > 0

(***************************************************************************)
(* C21: a line longer than max_chars is emitted whole as a chunk of its    *)
(* own, a chunk that holds that line and no other line, wherever the line  *)
(* stands in the input.                                                    *)
(***************************************************************************)
C21_LongLineOwnChunk ==
    ck_pc = "done" =>
        \A i \in 1..Len(lines) :
            lines[i].len > max_chars =>
                \E c \in 1..Len(chunks) : chunks[c] = <<lines[i]>>

(***************************************************************************)
(* Observations of the emitted chunks as runs of the input                 *)
(***************************************************************************)
\* the lines of chunk c that are not its overlap seed (chunk 1 has no seed)
FreshOf(c) ==
    IF c = 1 THEN chunks[1]
    ELSE SubSeq(chunks[c], SeedLen(c - 1) + 1, Len(chunks[c]))

RECURSIVE FreshConcat(_)
\* the fresh lines of the chunks 1..c, one chunk after the other
FreshConcat(c) == IF c = 0 THEN <<>> ELSE FreshConcat(c - 1) \o FreshOf(c)

\* chunk c is the input lines from..to, in input order
ContiguousRun(c) ==
    \A k \in 1..Len(chunks[c]) :
        /\ chunks[c][k].no = chunks[c][1].no + k - 1
        /\ chunks[c][k] = lines[chunks[c][k].no]

(***************************************************************************)
(* C28: chunk_lines loses and reorders nothing: every input line is in a   *)
(* chunk, each chunk is a contiguous run of the input in input order,      *)
(* every chunk has a line that is not of its overlap seed, and the chunks  *)
(* without their seeds, one after the other, are the input.                *)
(***************************************************************************)
C28_NothingLostOrReordered ==
    /\ \A c \in 1..Len(chunks) :
          /\ chunks[c] # <<>>
          /\ ContiguousRun(c)
          /\ FreshOf(c) # <<>>
    /\ ck_pc = "done" =>
          /\ \A i \in 1..Len(lines) :
                \E c \in 1..Len(chunks) : \E k \in 1..Len(chunks[c]) :
                    chunks[c][k] = lines[i]
          /\ FreshConcat(Len(chunks)) = lines

\* a finished run of three chunks, the later ones seeded
C28_Witness ==
    /\ ck_pc = "done"
    /\ Len(chunks) = 3
    /\ SeedLen(1) >= 1
    /\ SeedLen(2) >= 1
    /\ Len(lines) = 4

(***************************************************************************)
(* C22: chunk_lines terminates on every finite input for every max_chars   *)
(* and overlap, overlap >= max_chars included, and it emits at most one    *)
(* chunk per input line; an empty input yields no chunk.                   *)
(***************************************************************************)
C22_TerminatesOneChunkPerLine ==
    /\ (ck_pc = "loop") ~> (ck_pc = "done")
    /\ [](Len(chunks) <= Len(lines))
    /\ [](ck_pc = "loop" => Len(chunks) <= pos)

\* a finished run with overlap >= max_chars that gave one chunk per line
C22_Witness ==
    /\ ck_pc = "done"
    /\ overlap >= max_chars
    /\ Len(lines) >= 2
    /\ Len(chunks) = Len(lines)

(***************************************************************************)
(* C23: over any chat and health requests, in any interleaving, failed or  *)
(* not, the corpus and the system prompt stay as loaded: the health probe  *)
(* reports the same chunk count before and after every request, and a      *)
(* failed request changes nothing a later request reads.                   *)
(***************************************************************************)
C23_SharedStateImmutable ==
    /\ [][KB' = KB /\ SYSTEM_PROMPT' = SYSTEM_PROMPT /\ TOP_K' = TOP_K]_vars
    /\ [](KB = loaded.records)
    /\ [](health_resp # NoHealth => health_resp.chunks = Len(loaded.records))

\* a probe answered next to a chat request that failed after retrieval
C23_Witness ==
    /\ health_resp # NoHealth
    /\ resp.kind = "raise"
    /\ Len(hits) >= 2

C25_PromptAlwaysAvailable ==
    prompt_call.state = "done" =>
        /\ prompt_call.outcome.kind = "return"
        /\ prompt_call.outcome.value # <<>>

(***************************************************************************)
(* Observations of a create_client call                                    *)
(***************************************************************************)
FlagOn(v) == v \in {"1", "True"}

\* the variable is set to a value (an empty value counts as not set)
IsSet(v) == v = "value"

(***************************************************************************)
(* C26: create_client picks the endpoint by precedence: (1) purpose        *)
(* embeddings with FORCE_GLOBAL_EMBED truthy and OPENAI_API_KEY set:       *)
(* global; (2) else USE_GLOBAL_OPENAI truthy and OPENAI_API_KEY set:       *)
(* global; (3) else AZURE_OPENAI_ENDPOINT and AZURE_OPENAI_API_KEY set:    *)
(* the Azure resource; (4) else OPENAI_API_KEY set: global; (5) else it    *)
(* raises and returns no client. A variable set to the empty string is     *)
(* taken as not set.                                                       *)
(***************************************************************************)
C26_ClientPrecedence ==
    client_call.state = "done" =>
        LET e == client_call.env
            out == client_call.outcome
            rule1 == /\ client_call.purpose = "embeddings"
                     /\ FlagOn(e.FORCE_GLOBAL_EMBED)
                     /\ IsSet(e.OPENAI_API_KEY)
            rule2 == FlagOn(e.USE_GLOBAL_OPENAI) /\ IsSet(e.OPENAI_API_KEY)
            rule3 == IsSet(e.AZURE_OPENAI_ENDPOINT) /\ IsSet(e.AZURE_OPENAI_API_KEY)
            rule4 == IsSet(e.OPENAI_API_KEY)
            global == out.kind = "client" /\ out.base_url = "global_endpoint"
            azure == out.kind = "client" /\ out.base_url = "AZURE_OPENAI_ENDPOINT"
        IN  /\ rule1 => global
            /\ (~rule1 /\ rule2) => global
            /\ (~rule1 /\ ~rule2 /\ rule3) => azure
            /\ (~rule1 /\ ~rule2 /\ ~rule3 /\ rule4) => global
            /\ (~rule1 /\ ~rule2 /\ ~rule3 /\ ~rule4) => out.kind = "raise"

\* both the Azure resource and the global key are there, and the explicit
\* global flag wins
C26_Witness ==
    /\ client_call.state = "done"
    /\ client_call.purpose = "None"
    /\ FlagOn(client_call.env.USE_GLOBAL_OPENAI)
    /\ IsSet(client_call.env.AZURE_OPENAI_ENDPOINT)
    /\ IsSet(client_call.env.AZURE_OPENAI_API_KEY)
    /\ IsSet(client_call.env.OPENAI_API_KEY)
    /\ client_call.outcome.base_url = "global_endpoint"

(***************************************************************************)
(* Observations of a ChatSession                                           *)
(***************************************************************************)
\* send_message has just returned
SendReturned == s_ret # NoSend

\* both conventions were called and both raised
BothCallsFailed ==
    /\ Len(s_calls) = 2
    /\ s_calls[1].result = "raise"
    /\ s_calls[2].result = "raise"

\* the history the last send_message found, read off the request it sent
HistoryBefore == SubSeq(s_sent, 2, Len(s_sent) - 1)

\* the user message of the last send_message
UserSent == s_sent[Len(s_sent)]

IsSuffix(t, full) == Len(t) <= Len(full) /\ t = LastN(full, Len(t))

Alternates(h) ==
    /\ Len(h) % 2 = 0
    /\ \A i \in 1..Len(h) : h[i].role = IF i % 2 = 1 THEN "user" ELSE "assistant"

(***************************************************************************)
(* C27: the session history holds at most max_history (20) messages, the   *)
(* most recent ones in chronological order, older ones dropped without an  *)
(* error; no request of send_message carries more than the system          *)
(* message, 20 history messages and one new user message.                  *)
(***************************************************************************)
C27_HistoryBounded ==
    /\ Len(history) <= max_history
    /\ SendReturned =>
          /\ Len(s_sent) <= max_history + 2
          /\ s_sent[1].role = "system"
          /\ \A i \in 2..(Len(s_sent) - 1) : s_sent[i].role # "system"
          /\ UserSent.role = "user"
    /\ (SendReturned /\ s_ret[1] = "response") =>
          LET full == HistoryBefore \o << UserSent, [role |-> "assistant", content |-> s_ret[2]] >>
          IN  /\ IsSuffix(history, full)
              /\ Len(history) = Min(Len(full), max_history)

\* a request that carried 20 history messages was answered and the history
\* was trimmed back to 20
C27_Witness ==
    /\ SendReturned
    /\ s_ret[1] = "response"
    /\ Len(s_sent) = max_history + 2
    /\ Len(history) = max_history
    /\ history[1] # s_sent[2]

(***************************************************************************)
(* C29: when the model call of send_message fails on both conventions,     *)
(* send_message raises nothing, returns an error string that carries the   *)
(* primary call's error, and leaves history and attached_files as they     *)
(* were, so the failed user message is in no later request's history.      *)
(***************************************************************************)
C29_FailedSendLeavesSession ==
    /\ [](SendReturned => s_ret[1] \in {"response", "Error calling model:"})
    /\ []((SendReturned /\ BothCallsFailed) =>
            /\ s_ret = <<"Error calling model:", "primary_error">>
            /\ history = HistoryBefore
            /\ UserSent.content = _build_user_message(UserSent.content[1], attached_files))
    /\ [][(s_op' = "send_message" /\ s_ret = NoSend /\ s_ret'[1] = "Error calling model:") =>
            (history' = history /\ attached_files' = attached_files)]_vars

\* a failed send of a session that has history and an attached file
C29_Witness ==
    /\ SendReturned
    /\ BothCallsFailed
    /\ Len(history) >= 2
    /\ attached_files # <<>>

(***************************************************************************)
(* C30: after any send_message, reset_history, add_file and clear_files    *)
(* calls history has even length and alternates user, assistant, ...       *)
(* from a user message on, also after the trim; reset_history empties      *)
(* history and leaves attached_files, clear_files leaves history.          *)
(***************************************************************************)
C30_HistoryAlternates ==
    /\ [](Alternates(history))
    /\ [](s_op = "reset_history" => history = <<>>)
    /\ [](s_op = "clear_files" => attached_files = <<>>)
    /\ [][s_op' = "reset_history" => attached_files' = attached_files]_vars
    /\ [][s_op' \in {"clear_files", "add_file"} => history' = history]_vars

\* a trimmed history of 20 messages in a session whose files were cleared
C30_Witness ==
    /\ Len(history) = max_history
    /\ s_op = "clear_files"
    /\ \E i \in 1..Len(history) : Len(history[i].content) > 1
====
